---- MODULE Spec2Model ----
(***************************************************************************)
(* Model of nephos' Helm helpers (nephos/helpers/helm.py) and of the       *)
(* Hyperledger Composer installer (nephos/composer/install.py).            *)
(*                                                                         *)
(* A Python string is a sequence of chunks: "a" + "b" is <<"a">> \o <<"b">>*)
(* and a format() call is the sequence of its literal pieces and of the    *)
(* values it interpolates.  The empty string is <<>>.  A value that may be *)
(* None is a record [some, val].                                           *)
(***************************************************************************)
EXTENDS Integers, Sequences, FiniteSets, TLC

VARIABLES
    secrets,    \* cluster: <<namespace, name>> -> data (item -> value) of each secret
    cm,         \* cluster: <<namespace, name>> -> data of each config-map
    release,    \* cluster: the set of Helm release names that have a status
    cards,      \* composer CLI pod: the identity cards that were imported
    cardFiles,  \* composer CLI pod: the card files written
    archive,    \* composer CLI pod: what 'ls /hl_config/blockchain_network' prints
    hist,       \* one record per call made so far: its arguments, trace and outcome
    tiller,     \* cluster: the state of Helm's server side (Tiller)
    proc        \* the helm_init call in progress: its position, res and trace

vars == <<secrets, cm, release, cards, cardFiles, archive, hist, tiller, proc>>

\* ---------------------------------------------------------------- bounds

\* Longest sequence of set-variables / values files / preserved references.
MaxLen == 2
\* Number of calls made in a row when the operations are mixed freely.
MaxCalls == 2
\* Number of calls made in a row when one operation is repeated.
MaxRepeats == 3
\* Number of failed readiness checks of one helm_init call.
MaxPolls == 2

\* ---------------------------------------------------------------- values

None == [some |-> FALSE, val |-> <<>>]
Some(s) == [some |-> TRUE, val |-> s]

\* Python truthiness of an optional string: None and "" are both falsy.
Truthy(r) == r.some /\ r.val # <<>>

RECURSIVE Flatten(_)
\* "".join(parts)
Flatten(parts) ==
    IF parts = <<>> THEN <<>> ELSE Head(parts) \o Flatten(Tail(parts))

RECURSIVE Join(_, _)
\* sep.join(parts): sep and every part are strings
Join(sep, parts) ==
    IF parts = <<>> THEN <<>>
    ELSE IF Len(parts) = 1 THEN parts[1]
    ELSE parts[1] \o sep \o Join(sep, Tail(parts))

\* All sequences over S of length at most n.
SeqUpTo(S, n) == UNION {[1..k -> S] : k \in 0..n}

\* ------------------------------------------------------------ the options

ComposerName == "hlc"
PeerNamespace == "peer-ns"
ChartRepo == "aidtech"
SecretConnection == "hlc-connection"
ChartVersion == "0.1.0"
DirValues == "./values"
SecretBna == "hlc-bna"
PeerMsp == "peer_MSP"
PeerCa == "ca"
CaNamespace == "ca-ns"
ChannelName == "channel"

\* "{}-hl-composer-rest".format(opts["composer"]["name"])
RestSecretName == <<ComposerName, "-hl-composer-rest">>

\* The network archive in the composer CLI pod: mynet_1.2.3.bna
NetworkArchive == <<"mynet", "_", "1.2.3", ".bna">>
OrgAdmin == "admin"
OrgAdminPw == "adminpw"

\* The API keys the chart may generate.
Keys == {"key1", "key2"}

\* ------------------------------------------------- results of a function

\* What a function did: the error it raised ("none" when it returned), the
\* value it returned, and the external calls it made, in order.
Ok(v) == [err |-> "none", val |-> v, trace |-> <<>>]
Raise(e) == [err |-> e, val |-> <<>>, trace |-> <<>>]
After(t, r) == [r EXCEPT !.trace = t \o @]
\* F applied to the value of x, x evaluated once (x = ...; F(x)).
Bind(x, F(_)) == CHOOSE y \in {F(v) : v \in {x}} : TRUE

\* One external call: which collaborator, its argument (a string), whether
\* it returned (for the executor: whether it returned output, not None) and
\* the output it returned (for a cluster call that raised: the error; for
\* cm_create: the data written).
Event(api, arg, ok, out) == [api |-> api, arg |-> arg, ok |-> ok, out |-> out]

\* ---------------------------------------------------- helm.py: the tuples

\* A caller's item is [type, f]: a tuple (a HelmSet or HelmPreserve named
\* tuple is one too) with fields f, or a value of another type.
IsTuple(item) == item.type = "tuple"

\* HelmSet(*item): key, value and set_string, which defaults to False.
HelmSet(f) ==
    IF Len(f) = 2 THEN [key |-> f[1], value |-> f[2], set_string |-> FALSE]
    ELSE [key |-> f[1], value |-> f[2], set_string |-> f[3]]

HelmSetArity(f) == Len(f) \in {2, 3}

\* HelmPreserve(*item)
HelmPreserve(f) ==
    [secret_namespace |-> f[1], secret_name |-> f[2],
     data_item |-> f[3], values_path |-> f[4]]

HelmPreserveArity(f) == Len(f) = 4

\* A slip in the flag test: every variable rendered as a string literal.
SetFragmentAlwaysString(item) ==
    <<" --set", "-string", " ", item.key, "=", item.value>>

\* " --set{} {}={}".format("-string" if item.set_string else "", key, value)
SetFragment(item) ==
    <<" --set">> \o (IF item.set_string THEN <<"-string">> ELSE <<>>)
        \o <<" ", item.key, "=", item.value>>

\* "".join([... for item in env_vars])
SetString(items) == Flatten([i \in 1..Len(items) |-> SetFragment(items[i])])

\* ------------------------------------------------- helm.py: helm_env_vars

\* The first item of env_vars that the conversion loop rejects, 0 if none.
FirstBadSet(env_vars) ==
    LET bad == {i \in 1..Len(env_vars) :
                    ~ IsTuple(env_vars[i]) \/ ~ HelmSetArity(env_vars[i].f)}
    IN  IF bad = {} THEN 0 ELSE CHOOSE i \in bad : \A j \in bad : i <= j

helm_env_vars(env_vars) ==
    IF FirstBadSet(env_vars) # 0 THEN Raise("TypeError")
    ELSE Ok(SetString([i \in 1..Len(env_vars) |-> HelmSet(env_vars[i].f)]))

\* ------------------------------------------------- helm.py: helm_preserve

\* secret_read(name, namespace): the data of the secret, or the cluster's
\* ApiException (status 404) when there is no such secret.
secret_read(store, name, namespace) ==
    IF <<namespace, name>> \in DOMAIN store
    THEN [Ok(store[<<namespace, name>>]) EXCEPT
            !.trace = <<Event("secret_read", <<namespace, "/">> \o name, TRUE, <<>>)>>]
    ELSE [Raise("ApiException(404)") EXCEPT
            !.trace = <<Event("secret_read", <<namespace, "/">> \o name, FALSE, <<>>)>>]

\* A slip that names the set-variable after the data item it was read from.
PreserveOne_KeyIsItem(store, item) ==
    LET p == HelmPreserve(item.f)
        Item(secret_data) ==
            IF secret_data.err # "none" THEN secret_data
            ELSE IF p.data_item \notin DOMAIN secret_data.val
            THEN After(secret_data.trace, Raise("KeyError"))
            ELSE After(secret_data.trace,
                       Ok(HelmSet(<<p.data_item, secret_data.val[p.data_item]>>)))
    IN  IF ~ IsTuple(item) \/ ~ HelmPreserveArity(item.f) THEN Raise("TypeError")
        ELSE Bind(secret_read(store, p.secret_name, p.secret_namespace), Item)

\* One pass of the loop body: the HelmSet appended for item, or the error.
PreserveOne(store, item) ==
    LET p == HelmPreserve(item.f)
        Item(secret_data) ==
            IF secret_data.err # "none" THEN secret_data
            ELSE IF p.data_item \notin DOMAIN secret_data.val
            THEN After(secret_data.trace, Raise("KeyError"))
            ELSE After(secret_data.trace,
                       Ok(HelmSet(<<p.values_path, secret_data.val[p.data_item]>>)))
    IN  IF ~ IsTuple(item) \/ ~ HelmPreserveArity(item.f) THEN Raise("TypeError")
        ELSE Bind(secret_read(store, p.secret_name, p.secret_namespace), Item)

helm_preserve(store, preserve) ==
    LET Loop(one) ==
            LET bad == {i \in 1..Len(preserve) : one[i].err # "none"}
                stop == IF bad = {} THEN Len(preserve)
                        ELSE CHOOSE i \in bad : \A j \in bad : i <= j
                reads == Flatten([i \in 1..stop |-> one[i].trace])
            IN  IF bad # {}
                THEN After(reads, Raise(one[stop].err))
                ELSE After(reads,
                           Ok(SetString([i \in 1..Len(preserve) |-> one[i].val])))
    IN  Bind([i \in 1..Len(preserve) |-> PreserveOne(store, preserve[i])], Loop)

\* ----------------------------------------------- helm.py: helm_extra_vars

\* version is an optional string; config_yaml is [type, str, files] with
\* type "none", "str" (the string str), "tuple" (the sequence of strings
\* files) or "other"; env_vars and preserve are optional sequences.
ConfigStr(f) == [type |-> "str", str |-> f, files |-> <<>>]
ConfigTuple(fs) == [type |-> "tuple", str |-> <<>>, files |-> fs]

VersionPart(version) ==
    IF Truthy(version) THEN <<" --version ">> \o version.val ELSE <<>>

ConfigTruthy(config_yaml) ==
    /\ config_yaml.type # "none"
    /\ config_yaml.type = "str" => config_yaml.str # <<>>
    /\ config_yaml.type = "tuple" => config_yaml.files # <<>>

ConfigPart(config_yaml) ==
    IF ~ ConfigTruthy(config_yaml) THEN Ok(<<>>)
    ELSE IF config_yaml.type = "str"
    THEN Ok(<<" -f ">> \o Join(<<" -f ">>, <<config_yaml.str>>))
    ELSE IF config_yaml.type = "tuple"
    THEN Ok(<<" -f ">> \o Join(<<" -f ">>, config_yaml.files))
    ELSE Raise("ValueError")

EnvPart(env_vars) ==
    IF env_vars.some /\ env_vars.val # <<>> THEN helm_env_vars(env_vars.val)
    ELSE Ok(<<>>)

PreservePart(store, preserve) ==
    IF preserve.some /\ preserve.val # <<>>
    THEN helm_preserve(store, preserve.val)
    ELSE Ok(<<>>)

\* A slip in the order of the parts: the set-variables before the files.
helm_extra_vars_EnvFirst(store, version, config_yaml, env_vars, preserve) ==
    LET Files(c) ==
            LET Sets(e) ==
                    LET Preserved(p) ==
                            IF p.err # "none" THEN p
                            ELSE After(p.trace,
                                       Ok(VersionPart(version) \o e.val \o c.val
                                             \o p.val))
                    IN  IF e.err # "none" THEN e
                        ELSE Bind(PreservePart(store, preserve), Preserved)
            IN  IF c.err # "none" THEN c
                ELSE Bind(EnvPart(env_vars), Sets)
    IN  Bind(ConfigPart(config_yaml), Files)

helm_extra_vars(store, version, config_yaml, env_vars, preserve) ==
    LET Files(c) ==
            LET Sets(e) ==
                    LET Preserved(p) ==
                            IF p.err # "none" THEN p
                            ELSE After(p.trace,
                                       Ok(VersionPart(version) \o c.val \o e.val
                                             \o p.val))
                    IN  IF e.err # "none" THEN e
                        ELSE Bind(PreservePart(store, preserve), Preserved)
            IN  IF c.err # "none" THEN c
                ELSE Bind(EnvPart(env_vars), Sets)
    IN  Bind(ConfigPart(config_yaml), Files)

\* ------------------------------------------------------- the cluster

\* The cluster and the composer CLI pod, as one value.
World(s, c, r, cd, cf, a) ==
    [secrets |-> s, cm |-> c, release |-> r, cards |-> cd, cardFiles |-> cf,
     archive |-> a]

\* What an operation did: the error raised, the external calls made, in
\* order, and the cluster it left.
Ret(err, trace, w) == [err |-> err, val |-> <<>>, trace |-> trace, w |-> w]
\* b run after a returned.
Then(a, b) == [b EXCEPT !.trace = a.trace \o @]

\* kubernetes.client.rest.ApiException, whatever its status.
ApiException == {"ApiException(404)", "ApiException(409)", "ApiException(500)"}

\* What the surroundings do during one call: whether the chart command
\* fails, the API key the chart generates when none is passed, and the
\* cluster API call (if any) that fails with a server error.
ApiCalls == {"secret_from_file", "ingress_read", "cm_read", "cm_create"}
Envs == [helmFails : BOOLEAN, newKey : Keys, apiError : {"none"} \cup ApiCalls]

\* The value a command passes for key with --set or --set-string (the last
\* one wins), None when it passes none.
PassedValue(cmd, key) ==
    LET at == {i \in 2..(Len(cmd) - 2) :
                  cmd[i] = key /\ cmd[i - 1] = " " /\ cmd[i + 1] = "="}
    IN  IF at = {} THEN None
        ELSE Some(<<cmd[(CHOOSE i \in at : \A j \in at : j <= i) + 2]>>)

\* The secret the hl-composer chart manages: the API key passed as
\* rest.config.apiKey, or else one the chart generates.
ChartSecret(w, env, cmd, name) ==
    LET passed == PassedValue(cmd, "rest.config.apiKey")
        key == IF passed.some THEN passed.val[1] ELSE env.newKey
    IN  (<<PeerNamespace, <<name, "-hl-composer-rest">>>> :> ("COMPOSER_APIKEY" :> key))
            @@ w.secrets

\* execute(command) of a helm command: the output (None when the command
\* fails) and the cluster it leaves.
HelmExec(w, env, cmd) ==
    IF cmd[1] = "helm status "
    THEN [out |-> IF cmd[2] \in w.release THEN Some(<<"STATUS: DEPLOYED">>) ELSE None,
          w |-> w]
    ELSE IF cmd[1] = "helm install "
    THEN IF env.helmFails \/ cmd[6] \in w.release
         THEN [out |-> None, w |-> w]
         ELSE [out |-> Some(<<"NAME: ", cmd[6]>>),
               w |-> [w EXCEPT !.release = @ \cup {cmd[6]},
                               !.secrets = ChartSecret(w, env, cmd, cmd[6])]]
    ELSE IF cmd[1] = "helm upgrade "
    THEN IF env.helmFails \/ cmd[2] \notin w.release
         THEN [out |-> None, w |-> w]
         ELSE [out |-> Some(<<"Release upgraded: ", cmd[2]>>),
               w |-> [w EXCEPT !.secrets = ChartSecret(w, env, cmd, cmd[2])]]
    ELSE [out |-> None, w |-> w]

Executed(cmd, run) == Event("execute", cmd, run.out.some, run.out.val)

\* -------------------------------------------------- helm.py: helm_install

\* A slip that installs whatever the probe says.
helm_install_NoCheck(w, env, repo, app, rel, namespace, extra_vars) ==
    LET status == <<"helm status ", rel>>
        command == <<"helm install ", repo, "/", app, " -n ", rel,
                     " --namespace ", namespace>> \o extra_vars
        Install(ls_res) ==
            LET Done(run) ==
                    Ret("none", <<Executed(status, ls_res), Executed(command, run)>>,
                        run.w)
            IN  Bind(HelmExec(ls_res.w, env, command), Done)
    IN  Bind(HelmExec(w, env, status), Install)

helm_install(w, env, repo, app, rel, namespace, extra_vars) ==
    LET status == <<"helm status ", rel>>
        command == <<"helm install ", repo, "/", app, " -n ", rel,
                     " --namespace ", namespace>> \o extra_vars
        Install(ls_res) ==
            LET Done(run) ==
                    Ret("none", <<Executed(status, ls_res), Executed(command, run)>>,
                        run.w)
            IN  IF ~ Truthy(ls_res.out)
                THEN Bind(HelmExec(ls_res.w, env, command), Done)
                ELSE Ret("none", <<Executed(status, ls_res)>>, ls_res.w)
    IN  Bind(HelmExec(w, env, status), Install)

\* -------------------------------------------------- helm.py: helm_upgrade

\* A slip that sends the upgrade of a missing release to Helm before raising.
helm_upgrade_Late(w, env, repo, app, rel, extra_vars) ==
    LET status == <<"helm status ", rel>>
        command == <<"helm upgrade ", rel, " ", repo, "/", app>>
                       \o (IF Truthy(extra_vars) THEN extra_vars.val ELSE <<>>)
        Upgrade(ls_res) ==
            LET Done(run) ==
                    Ret(IF Truthy(ls_res.out) THEN "none" ELSE "Exception",
                        <<Executed(status, ls_res), Executed(command, run)>>, run.w)
            IN  Bind(HelmExec(ls_res.w, env, command), Done)
    IN  Bind(HelmExec(w, env, status), Upgrade)

\* extra_vars is optional here: command += extra_vars or ""
helm_upgrade(w, env, repo, app, rel, extra_vars) ==
    LET status == <<"helm status ", rel>>
        command == <<"helm upgrade ", rel, " ", repo, "/", app>>
                       \o (IF Truthy(extra_vars) THEN extra_vars.val ELSE <<>>)
        Upgrade(ls_res) ==
            LET Done(run) ==
                    Ret("none", <<Executed(status, ls_res), Executed(command, run)>>,
                        run.w)
            IN  IF Truthy(ls_res.out)
                THEN Bind(HelmExec(ls_res.w, env, command), Done)
                ELSE Ret("Exception", <<Executed(status, ls_res)>>, ls_res.w)
    IN  Bind(HelmExec(w, env, status), Upgrade)

\* ----------------------------------------------------- helm.py: helm_init

\* The commands of helm_init.
HelmList == "helm list"
RbacCreate == "kubectl create -f {CURRENT_DIR}/../extras/helm-rbac.yaml"
HelmInitCommand == "helm init --service-account tiller"
AutomountQuery ==
    "kubectl -n kube-system get deployment tiller-deploy -o jsonpath=automount"
AutomountPatch ==
    "kubectl -n kube-system patch deployment tiller-deploy -p automount=true"

\* Helm's server side: whether the RBAC objects exist, whether the Tiller
\* deployment exists, whether Tiller answers, and the value of the
\* deployment's automountServiceAccountToken ("" when it has none).
Tiller(rbac, installed, ready, automount) ==
    [rbac |-> rbac, installed |-> installed, ready |-> ready,
     automount |-> automount]
TillerRunning == Tiller(TRUE, TRUE, TRUE, <<"true">>)
Automounts == {<<"false">>, <<"true">>, <<>>}

\* execute(command) of a command of helm_init: the output (None when the
\* command fails; 'helm list' prints the releases, nothing when there are
\* none) and the server side it leaves.
InitExec(t, rel, cmd, fails) ==
    IF fails THEN [out |-> None, t |-> t]
    ELSE IF cmd = HelmList
    THEN [out |-> IF ~ t.ready THEN None
                  ELSE IF ComposerName \in rel THEN Some(<<"NAME ", ComposerName>>)
                  ELSE Some(<<>>),
          t |-> t]
    ELSE IF cmd = RbacCreate
    THEN IF t.rbac THEN [out |-> None, t |-> t]
         ELSE [out |-> Some(<<"serviceaccount created">>),
               t |-> [t EXCEPT !.rbac = TRUE]]
    ELSE IF cmd = HelmInitCommand
    THEN [out |-> Some(<<"Tiller has been installed">>),
          t |-> [t EXCEPT !.installed = TRUE]]
    ELSE IF cmd = AutomountQuery
    THEN [out |-> IF t.installed THEN Some(t.automount) ELSE None, t |-> t]
    ELSE IF cmd = AutomountPatch
    THEN IF t.installed
         THEN [out |-> Some(<<"deployment patched">>),
               t |-> [t EXCEPT !.automount = <<"true">>]]
         ELSE [out |-> None, t |-> t]
    ELSE [out |-> None, t |-> t]

\* No helm_init call is in progress.
Idle == [pc |-> "idle", res |-> None, trace |-> <<>>]

\* A slip that tests the probe's output for truth: if res.
AlreadyInstalled_IfRes(res) == Truthy(res)
\* if res is not None (the first probe)
AlreadyInstalled(res) == res.some
\* if res == "false"
NeedsPatch(res) == res.some /\ res.val = <<"false">>
\* A slip that leaves the loop after one check, whatever it returned.
Running_GivesUp(res) == TRUE
\* if res is not None: running = True (the poll)
Running(res) == res.some

\* ---------------------------------------------------- helm.py: helm_check

\* pod_check(namespace, '-l "app={app},release={name}"', pod_num): the
\* readiness poll of the release's pods.
helm_check(w, app, rel, namespace) ==
    Ret("none",
        <<Event("pod_check",
                <<namespace, " ", "-l \"app=", app, ",release=", rel, "\"">>,
                TRUE, <<>>)>>,
        w)

\* ------------------------------------------- the cluster resource client

Fails(env, call) == env.apiError = call

\* secret_from_file(secret, namespace): creates the secret from the local
\* file unless the cluster already holds it.
secret_from_file(w, env, secret, namespace) ==
    IF Fails(env, "secret_from_file")
    THEN Ret("ApiException(500)",
             <<Event("secret_from_file", <<namespace, "/", secret>>, FALSE,
                     <<"ApiException(500)">>)>>, w)
    ELSE Ret("none",
             <<Event("secret_from_file", <<namespace, "/", secret>>, TRUE, <<>>)>>,
             [w EXCEPT !.secrets =
                 @ @@ (<<namespace, <<secret>>>> :> ("bna" :> "archive"))])

\* ingress_read(name, namespace): the hosts of the ingress.
ingress_read(w, env, name, namespace) ==
    IF Fails(env, "ingress_read")
    THEN Ret("ApiException(500)",
             <<Event("ingress_read", <<namespace, "/">> \o name, FALSE,
                     <<"ApiException(500)">>)>>, w)
    ELSE [Ret("none",
              <<Event("ingress_read", <<namespace, "/">> \o name, TRUE, <<>>)>>, w)
            EXCEPT !.val = <<"ca.example.org">>]

\* cm_read(name, namespace): raises the cluster's ApiException, status 404
\* when there is no such config-map and another status when the read fails.
cm_read(w, env, name, namespace) ==
    IF Fails(env, "cm_read")
    THEN Ret("ApiException(500)",
             <<Event("cm_read", <<namespace, "/", name>>, FALSE,
                     <<"ApiException(500)">>)>>, w)
    ELSE IF <<namespace, name>> \notin DOMAIN w.cm
    THEN Ret("ApiException(404)",
             <<Event("cm_read", <<namespace, "/", name>>, FALSE,
                     <<"ApiException(404)">>)>>, w)
    ELSE Ret("none", <<Event("cm_read", <<namespace, "/", name>>, TRUE, <<>>)>>, w)

\* cm_create(cm_data, name, namespace): the cluster refuses (status 409) to
\* create a config-map that exists.
cm_create(w, env, cm_data, name, namespace) ==
    IF Fails(env, "cm_create")
    THEN Ret("ApiException(500)",
             <<Event("cm_create", <<namespace, "/", name>>, FALSE, cm_data)>>, w)
    ELSE IF <<namespace, name>> \in DOMAIN w.cm
    THEN Ret("ApiException(409)",
             <<Event("cm_create", <<namespace, "/", name>>, FALSE, cm_data)>>, w)
    ELSE Ret("none",
             <<Event("cm_create", <<namespace, "/", name>>, TRUE, cm_data)>>,
             [w EXCEPT !.cm = (<<namespace, name>> :> cm_data) @@ @])

\* json_ct(opts, ca, ca_url, "AidTech", None, msp, channel): the connection
\* profile synthesized from the options.
json_ct(peer_ca, peer_ca_url, org, peer_msp, channel) ==
    <<"{", peer_ca, peer_ca_url, org, peer_msp, channel, "}">>

\* cm_data = {"connection.json": json_ct(...)}
CmData(content) == <<"connection.json", ": ">> \o content

\* ------------------------------------------ install.py: composer_connection

composer_connection(w, env) ==
    LET Connect(ingress_urls) ==
            LET cm_data == CmData(json_ct(PeerCa, ingress_urls.val[1], "AidTech",
                                          PeerMsp, ChannelName))
                Create(read) ==
                    IF read.err \in ApiException
                    THEN Then(ingress_urls, Then(read,
                              cm_create(w, env, cm_data, SecretConnection,
                                        PeerNamespace)))
                    ELSE [Then(ingress_urls, read) EXCEPT !.val = <<>>]
            IN  IF ingress_urls.err # "none" THEN ingress_urls
                ELSE Bind(cm_read(w, env, SecretConnection, PeerNamespace), Create)
    IN  Bind(ingress_read(w, env, <<PeerCa, "-hlf-ca">>, CaNamespace), Connect)

\* --------------------------------------------- install.py: deploy_composer

\* "{dir}/hl-composer/{release}.yaml".format(...)
ComposerValues == <<DirValues, "/hl-composer/", ComposerName, ".yaml">>

\* The branch of deploy_composer taken when upgrade is false.
InstallBranch(w, env) ==
    LET Install(extra_vars) ==
            IF extra_vars.err # "none"
            THEN Ret(extra_vars.err, extra_vars.trace, w)
            ELSE Then(extra_vars,
                      helm_install(w, env, ChartRepo, "hl-composer", ComposerName,
                                   PeerNamespace, extra_vars.val))
    IN  Bind(helm_extra_vars(w.secrets, Some(<<ChartVersion>>),
                             ConfigStr(ComposerValues), None, None), Install)

\* A slip that upgrades without the preserved secret.
UpgradePreserve_None == None

\* The preserve argument of the upgrade branch.
UpgradePreserve ==
    Some(<<[type |-> "tuple",
            f |-> <<PeerNamespace, <<ComposerName, "-hl-composer-rest">>,
                    "COMPOSER_APIKEY", "rest.config.apiKey">>]>>)

\* A slip that probes the release before it resolves the preserved secret.
UpgradeBranch_ProbeFirst(w, env) ==
    LET Upgrade(probe) ==
            LET Send(extra_vars) ==
                    IF extra_vars.err # "none"
                    THEN Ret(extra_vars.err, probe.trace \o extra_vars.trace, w)
                    ELSE Then(extra_vars,
                              helm_upgrade(w, env, ChartRepo, "hl-composer",
                                           ComposerName, Some(extra_vars.val)))
            IN  IF ~ Truthy(probe.out)
                THEN Ret("Exception", <<Executed(<<"helm status ", ComposerName>>,
                                                 probe)>>, w)
                ELSE Bind(helm_extra_vars(w.secrets, Some(<<ChartVersion>>),
                                          ConfigStr(ComposerValues), None,
                                          UpgradePreserve), Send)
    IN  Bind(HelmExec(w, env, <<"helm status ", ComposerName>>), Upgrade)

\* The branch of deploy_composer taken when upgrade is true.
UpgradeBranch(w, env) ==
    LET Upgrade(extra_vars) ==
            IF extra_vars.err # "none"
            THEN Ret(extra_vars.err, extra_vars.trace, w)
            ELSE Then(extra_vars,
                      helm_upgrade(w, env, ChartRepo, "hl-composer", ComposerName,
                                   Some(extra_vars.val)))
    IN  Bind(helm_extra_vars(w.secrets, Some(<<ChartVersion>>),
                             ConfigStr(ComposerValues), None, UpgradePreserve),
             Upgrade)

\* A slip that waits for the pods before the installer has been called.
deploy_composer_CheckFirst(w, env, upgrade) ==
    LET Helm(check) ==
            Then(check, IF upgrade THEN UpgradeBranch(check.w, env)
                        ELSE InstallBranch(check.w, env))
        Start(conn) ==
            IF conn.err # "none" THEN conn
            ELSE Bind(Then(conn, helm_check(conn.w, "hl-composer", ComposerName,
                                            PeerNamespace)), Helm)
        Connect(bna) ==
            IF bna.err # "none" THEN bna
            ELSE Bind(Then(bna, composer_connection(bna.w, env)), Start)
    IN  Bind(secret_from_file(w, env, SecretBna, PeerNamespace), Connect)

deploy_composer(w, env, upgrade) ==
    LET Check(helm) ==
            IF helm.err # "none" THEN helm
            ELSE Then(helm, helm_check(helm.w, "hl-composer", ComposerName,
                                       PeerNamespace))
        Start(conn) ==
            IF conn.err # "none" THEN conn
            ELSE Bind(Then(conn, IF upgrade THEN UpgradeBranch(conn.w, env)
                                 ELSE InstallBranch(conn.w, env)), Check)
        Connect(bna) ==
            IF bna.err # "none" THEN bna
            ELSE Bind(Then(bna, composer_connection(bna.w, env)), Start)
    IN  Bind(secret_from_file(w, env, SecretBna, PeerNamespace), Connect)

\* ------------------------------------------------ the composer CLI pod

\* str(x) of an optional string: None prints as "None".
Str(opt) == IF opt.some THEN opt.val ELSE <<"None">>

\* A slip that cuts the string before its first separator only, leaving the
\* separator at the head of the second piece.
Split_KeepSep(str, sep) ==
    LET at == {i \in 1..Len(str) : str[i] = sep}
        first == CHOOSE i \in at : \A j \in at : i <= j
    IN  IF at = {} THEN <<str>>
        ELSE <<SubSeq(str, 1, first - 1), SubSeq(str, first, Len(str))>>

RECURSIVE Split(_, _)
\* str.split(sep), sep one chunk: the pieces between the separators.
Split(str, sep) ==
    LET at == {i \in 1..Len(str) : str[i] = sep}
        first == CHOOSE i \in at : \A j \in at : i <= j
    IN  IF at = {} THEN <<str>>
        ELSE <<SubSeq(str, 1, first - 1)>>
                \o Split(SubSeq(str, first + 1, Len(str)), sep)

\* The commands the installer runs in the pod, by their leading words.
CardList == "composer card list --card "
CardCreate == "composer card create "
CardImport == "composer card import "
NetworkInstall == "composer network install --card PeerAdmin@hlfv1 "
NetworkStart == "composer network start "
NetworkPing == "composer network ping --card "
ListArchive == "ls /hl_config/blockchain_network"
PodCommands == {CardList, CardCreate, CardImport, NetworkInstall, NetworkStart,
                NetworkPing, ListArchive}

\* What the pod does during one call: the command (if any) that fails.
PodEnvs == [fails : {"none"} \cup PodCommands]

\* The text of cmd after its chunk word (the value of a flag).
Flag(cmd, word) ==
    LET at == CHOOSE i \in 1..Len(cmd) : cmd[i] = word
    IN  SubSeq(cmd, at + 1, Len(cmd))
\* The text of cmd between its chunks from and to.
Between(cmd, from, to) ==
    SubSeq(cmd, (CHOOSE i \in 1..Len(cmd) : cmd[i] = from) + 1,
                (CHOOSE i \in 1..Len(cmd) : cmd[i] = to) - 1)
\* A card file's name without the directory and the .card suffix.
CardOfFile(path) ==
    LET file == IF path # <<>> /\ path[1] = "/home/composer/" THEN Tail(path) ELSE path
    IN  IF file # <<>> /\ file[Len(file)] = ".card"
        THEN SubSeq(file, 1, Len(file) - 1) ELSE file

\* hlc_cli_ex.execute(command): the output (None when the command fails)
\* and the pod it leaves.  A card is listed once imported; card create and
\* network start write a card file; card import registers a written file.
ComposerExec(w, env, cmd) ==
    IF env.fails = cmd[1] THEN [out |-> None, w |-> w]
    ELSE IF cmd[1] = ListArchive THEN [out |-> Some(w.archive), w |-> w]
    ELSE IF cmd[1] = CardList
    THEN [out |-> IF Tail(cmd) \in w.cards THEN Some(<<"userName: ">> \o Tail(cmd))
                  ELSE None,
          w |-> w]
    ELSE IF cmd[1] = CardCreate
    THEN [out |-> Some(<<"Successfully created business network card file">>),
          w |-> [w EXCEPT !.cardFiles = @ \cup {CardOfFile(Flag(cmd, "--file "))}]]
    ELSE IF cmd[1] = CardImport
    THEN IF CardOfFile(Flag(cmd, "--file ")) \in w.cardFiles
            /\ CardOfFile(Flag(cmd, "--file ")) \notin w.cards
         THEN [out |-> Some(<<"Successfully imported business network card">>),
               w |-> [w EXCEPT !.cards = @ \cup {CardOfFile(Flag(cmd, "--file "))}]]
         ELSE [out |-> None, w |-> w]
    ELSE IF cmd[1] = NetworkInstall
    THEN [out |-> Some(<<"Successfully installed business network">>), w |-> w]
    ELSE IF cmd[1] = NetworkStart
    THEN [out |-> Some(<<"Successfully created business network card">>),
          w |-> [w EXCEPT !.cardFiles =
                    @ \cup {Between(cmd, "--networkAdmin ",
                                    " --networkAdminEnrollSecret ") \o <<"@">>
                              \o Between(cmd, "--networkName ",
                                         " --networkVersion ")}]]
    ELSE IF cmd[1] = NetworkPing
    THEN [out |-> IF Tail(cmd) \in w.cards THEN Some(<<"The connection was ok">>)
                  ELSE None,
          w |-> w]
    ELSE [out |-> None, w |-> w]

PodExecuted(cmd, run) == Event("pod_execute", cmd, run.out.some, run.out.val)

\* One more command of a session: acc is what the session did so far, out
\* the output of its last command.
Session(w) == [err |-> "none", trace |-> <<>>, w |-> w, out |-> None]
Run(acc, env, cmd) ==
    LET Go(a) ==
            LET Done(run) ==
                    [a EXCEPT !.trace = Append(@, PodExecuted(cmd, run)),
                              !.w = run.w, !.out = run.out]
            IN  Bind(ComposerExec(a.w, env, cmd), Done)
    IN  Bind(acc, Go)
Fail(acc, e) == [acc EXCEPT !.err = e]

\* get_helm_pod(namespace, release, app): the executor bound to the pod.
get_helm_pod(w, namespace, rel, app) ==
    [Session(w) EXCEPT
        !.trace = <<Event("get_helm_pod", <<namespace, "/", rel, "/", app>>,
                          TRUE, <<>>)>>]

\* --------------------------------------------------- install.py: setup_card

RolesString(roles) ==
    IF roles # <<>> THEN <<"-r ">> \o Join(<<" -r ">>, roles) \o <<" ">> ELSE <<>>

CardCreateCommand(msp_path, user_name, roles, network) ==
    <<CardCreate>> \o (IF Truthy(network) THEN <<"-n ">> \o network.val \o <<" ">>
                       ELSE <<>>)
        \o <<"-p /hl_config/hlc-connection/connection.json ",
             "-u ", user_name, " -c ", msp_path, "/signcerts/cert.pem ",
             "-k ", msp_path, "/keystore/key.pem ">>
        \o RolesString(roles)
        \o <<"--file ", "/home/composer/", user_name, "@">> \o Str(network)

CardImportCommand(user_name, network) ==
    <<CardImport, "--file ", "/home/composer/", user_name, "@">> \o Str(network)
        \o <<".card">>

\* A slip that creates and imports the card whatever the list returns.
setup_card_NoCheck(w, env, msp_path, user_name, roles, network) ==
    Run(Run(Run(get_helm_pod(w, PeerNamespace, ComposerName, "hl-composer"), env,
                <<CardList, user_name, "@">> \o Str(network)),
            env, CardCreateCommand(msp_path, user_name, roles, network)),
        env, CardImportCommand(user_name, network))

setup_card(w, env, msp_path, user_name, roles, network) ==
    LET Setup(listed) ==
            IF ~ Truthy(listed.out)
            THEN Run(Run(listed, env,
                         CardCreateCommand(msp_path, user_name, roles, network)),
                     env, CardImportCommand(user_name, network))
            ELSE listed
    IN  Bind(Run(get_helm_pod(w, PeerNamespace, ComposerName, "hl-composer"), env,
                 <<CardList, user_name, "@">> \o Str(network)),
             Setup)

\* ----------------------------------------------- install.py: install_network

\* admin_creds(opts, peer_msp): fetches the organisation admin's password.
admin_creds(acc, peer_msp) ==
    [acc EXCEPT !.trace = Append(@, Event("admin_creds", <<peer_msp>>, TRUE, <<>>))]

\* A slip that pings only after a bootstrap.
install_network_PingInside(w, env) ==
    LET Parse(ls) ==
            LET parts == Split(ls.out.val, "_")
                rest == Split(parts[2], ".bna")
                bna_name == parts[1]
                bna_version == rest[1]
                card == <<OrgAdmin, "@">> \o bna_name
                Boot(listed) ==
                    IF ~ Truthy(listed.out)
                    THEN Run(Run(Run(Run(listed, env,
                             <<NetworkInstall, "--archiveFile ",
                               "/hl_config/blockchain_network/">> \o ls.out.val),
                             env,
                             <<NetworkStart, "--card PeerAdmin@hlfv1 ",
                               "--networkName ">> \o bna_name
                               \o <<" --networkVersion ">> \o bna_version
                               \o <<" ", "--networkAdmin ", OrgAdmin,
                                    " --networkAdminEnrollSecret ", OrgAdminPw>>),
                             env, <<CardImport, "--file ">> \o card \o <<".card">>),
                             env, <<NetworkPing>> \o card)
                    ELSE listed
            IN  IF ~ ls.out.some THEN Fail(ls, "AttributeError")
                ELSE IF Len(parts) # 2 \/ Len(rest) # 2 THEN Fail(ls, "ValueError")
                ELSE Bind(Run(admin_creds(ls, PeerMsp), env, <<CardList>> \o card),
                          Boot)
    IN  Bind(Run(get_helm_pod(w, PeerNamespace, ComposerName, "hl-composer"), env,
                 <<ListArchive>>),
             Parse)

install_network(w, env) ==
    LET Parse(ls) ==
            LET parts == Split(ls.out.val, "_")
                rest == Split(parts[2], ".bna")
                bna_name == parts[1]
                bna_version == rest[1]
                card == <<OrgAdmin, "@">> \o bna_name
                Boot(listed) ==
                    IF ~ Truthy(listed.out)
                    THEN Run(Run(Run(listed, env,
                             <<NetworkInstall, "--archiveFile ",
                               "/hl_config/blockchain_network/">> \o ls.out.val),
                             env,
                             <<NetworkStart, "--card PeerAdmin@hlfv1 ",
                               "--networkName ">> \o bna_name
                               \o <<" --networkVersion ">> \o bna_version
                               \o <<" ", "--networkAdmin ", OrgAdmin,
                                    " --networkAdminEnrollSecret ", OrgAdminPw>>),
                             env, <<CardImport, "--file ">> \o card \o <<".card">>)
                    ELSE listed
            IN  IF ~ ls.out.some THEN Fail(ls, "AttributeError")
                ELSE IF Len(parts) # 2 \/ Len(rest) # 2 THEN Fail(ls, "ValueError")
                ELSE Run(Bind(Run(admin_creds(ls, PeerMsp), env,
                                  <<CardList>> \o card),
                              Boot),
                         env, <<NetworkPing>> \o card)
    IN  Bind(Run(get_helm_pod(w, PeerNamespace, ComposerName, "hl-composer"), env,
                 <<ListArchive>>),
             Parse)

\* ------------------------------------------------- the callers' inputs

SetKeys == {"k1", "k2"}
SetValues == {"v1", "v2"}

\* The items a caller may put in env_vars: 2-tuples, 3-tuples, and a value
\* that is no tuple.
SetItems ==
    {[type |-> "tuple", f |-> <<k, v>>] : k \in SetKeys, v \in SetValues}
    \cup {[type |-> "tuple", f |-> <<k, v, b>>] :
                k \in SetKeys, v \in SetValues, b \in BOOLEAN}
    \cup {[type |-> "list", f |-> <<"k1", "v1">>]}

\* The preserved-secret references of a caller.
ApiKeyRef ==
    [type |-> "tuple",
     f |-> <<PeerNamespace, RestSecretName, "COMPOSER_APIKEY", "rest.config.apiKey">>]
DbRef ==
    [type |-> "tuple", f |-> <<PeerNamespace, <<"db">>, "PASSWORD", "db.password">>]
PreserveItems == {ApiKeyRef, DbRef}

\* The secret stores the helpers are tried on: the secrets absent, present,
\* and present without the data item.
RestSecret(k) == <<PeerNamespace, RestSecretName>> :> ("COMPOSER_APIKEY" :> k)
DbSecret == <<PeerNamespace, <<"db">>>> :> ("PASSWORD" :> "pw")
NoSecrets == <<>>
Stores ==
    {NoSecrets, DbSecret, (<<PeerNamespace, RestSecretName>> :> <<>>) @@ DbSecret}
    \cup {RestSecret(k) @@ DbSecret : k \in Keys}

Versions == {None, Some(<<>>), Some(<<ChartVersion>>)}
ValuesFiles == {<<"a.yaml">>, <<DirValues, "/hl-composer/", ComposerName, ".yaml">>}
ConfigYamls ==
    {[type |-> "none", str |-> <<>>, files |-> <<>>],
     [type |-> "other", str |-> <<>>, files |-> <<>>],
     ConfigStr(<<>>)}
    \cup {ConfigStr(f) : f \in ValuesFiles}
    \cup {ConfigTuple(fs) : fs \in SeqUpTo(ValuesFiles, MaxLen)}
ExtraEnvItems ==
    {[type |-> "tuple", f |-> <<"k1", "v1">>],
     [type |-> "tuple", f |-> <<"k2", "v2", TRUE>>]}
Optional(S) == {None} \cup {Some(x) : x \in S}

\* ------------------------------------------------------------ the calls

\* The record of one call: the operation, its arguments, what it did, and
\* the cluster before and after it.
Cluster == World(secrets, cm, release, cards, cardFiles, archive)
Call(op, args, r) ==
    [op |-> op, args |-> args, err |-> r.err, val |-> r.val, trace |-> r.trace]

\* The helpers are functions of their arguments and of the secrets they
\* read: a call leaves the cluster as it is.  Each behaviour makes one call.
CallHelmEnvVars ==
    /\ hist = <<>>
    /\ \E env_vars \in SeqUpTo(SetItems, MaxLen) :
        /\ hist' = <<Call("helm_env_vars", [env_vars |-> env_vars],
                          helm_env_vars(env_vars))>>
        /\ UNCHANGED <<secrets, cm, release, cards, cardFiles, archive, tiller, proc>>

CallHelmPreserve ==
    /\ hist = <<>>
    /\ \E preserve \in SeqUpTo(PreserveItems, MaxLen) :
        /\ hist' = <<Call("helm_preserve", [preserve |-> preserve],
                          helm_preserve(secrets, preserve))>>
        /\ UNCHANGED <<secrets, cm, release, cards, cardFiles, archive, tiller, proc>>

CallHelmExtraVars ==
    /\ hist = <<>>
    /\ \E version \in Versions, config_yaml \in ConfigYamls,
          env_vars \in Optional(SeqUpTo(ExtraEnvItems, MaxLen)),
          preserve \in Optional(SeqUpTo(PreserveItems, MaxLen)) :
        /\ hist' = <<Call("helm_extra_vars",
                          [version |-> version, config_yaml |-> config_yaml,
                           env_vars |-> env_vars, preserve |-> preserve],
                          helm_extra_vars(secrets, version, config_yaml,
                                          env_vars, preserve))>>
        /\ UNCHANGED <<secrets, cm, release, cards, cardFiles, archive, tiller, proc>>

InitHelpers ==
    /\ tiller = TillerRunning
    /\ proc = Idle
    /\ secrets \in Stores
    /\ cm = <<>>
    /\ release = {}
    /\ cards = {}
    /\ cardFiles = {}
    /\ archive = NetworkArchive
    /\ hist = <<>>

NextHelpers == CallHelmEnvVars \/ CallHelmPreserve \/ CallHelmExtraVars

\* The string helpers, each applied to every input within the bounds.
SpecHelpers == InitHelpers /\ [][NextHelpers]_vars

\* ------------------------------------------- the installer's operations

\* The record of a call that may change the cluster.
CallW(op, args, r, pre) ==
    [op |-> op, args |-> args, err |-> r.err, trace |-> r.trace,
     pre |-> pre, post |-> r.w]

Leaves(r) ==
    /\ UNCHANGED <<tiller, proc>>
    /\ secrets' = r.w.secrets
    /\ cm' = r.w.cm
    /\ release' = r.w.release
    /\ cards' = r.w.cards
    /\ cardFiles' = r.w.cardFiles
    /\ archive' = r.w.archive

\* The extra variables a direct caller of the installer passes.
CallerExtras == {<<>>, <<" --version ", ChartVersion>>,
                 <<" --set", " ", "rest.config.apiKey", "=", "key2">>}

HelmInstall ==
    \E env \in Envs, extra_vars \in CallerExtras :
        /\ \E r \in {helm_install(Cluster, env, ChartRepo, "hl-composer",
                                 ComposerName, PeerNamespace, extra_vars)} :
               /\ hist' = Append(hist, CallW("helm_install",
                                [upgrade |-> FALSE, extra_vars |-> Some(extra_vars)],
                                r, Cluster))
               /\ Leaves(r)

HelmUpgrade ==
    \E env \in Envs, extra_vars \in Optional(CallerExtras) :
        /\ \E r \in {helm_upgrade(Cluster, env, ChartRepo, "hl-composer",
                                 ComposerName, extra_vars)} :
               /\ hist' = Append(hist, CallW("helm_upgrade",
                                [upgrade |-> TRUE, extra_vars |-> extra_vars],
                                r, Cluster))
               /\ Leaves(r)

DeployComposer(upgrade) ==
    \E env \in Envs :
        /\ \E r \in {deploy_composer(Cluster, env, upgrade)} :
               /\ hist' = Append(hist, CallW("deploy_composer",
                                [upgrade |-> upgrade, extra_vars |-> None],
                                r, Cluster))
               /\ Leaves(r)

ComposerConnection ==
    \E env \in Envs :
        /\ \E r \in {composer_connection(Cluster, env)} :
               /\ hist' = Append(hist, CallW("composer_connection",
                                [upgrade |-> FALSE, extra_vars |-> None],
                                r, Cluster))
               /\ Leaves(r)

\* The clusters an orchestration run may find: nothing deployed yet; the
\* release deployed with its generated API key; the release deployed and
\* its secret since deleted, or emptied.
Fresh == World(NoSecrets, <<>>, {}, {}, {}, NetworkArchive)
Deployed(k) ==
    World(RestSecret(k) @@ (<<PeerNamespace, <<SecretBna>>>> :> ("bna" :> "archive")),
          <<PeerNamespace, SecretConnection>> :>
              CmData(json_ct(PeerCa, "ca.example.org", "AidTech", PeerMsp,
                             ChannelName)),
          {ComposerName}, {}, {}, NetworkArchive)
SecretLost == [Deployed("key1") EXCEPT !.secrets = NoSecrets]
\* The release deployed, its secret edited so that it holds no API key.
ItemLost ==
    [Deployed("key1") EXCEPT !.secrets = <<PeerNamespace, RestSecretName>> :> <<>>]
\* The release since deleted, its secret and config-map left behind.
ReleaseGone == [Deployed("key1") EXCEPT !.release = {}]
Clusters ==
    {Fresh, SecretLost, ItemLost, ReleaseGone} \cup {Deployed(k) : k \in Keys}

Init ==
    /\ tiller = TillerRunning
    /\ proc = Idle
    /\ \E w \in Clusters :
          /\ secrets = w.secrets
          /\ cm = w.cm
          /\ release = w.release
          /\ cards = w.cards
          /\ cardFiles = w.cardFiles
          /\ archive = w.archive
    /\ hist = <<>>

More == Len(hist) < MaxCalls

Next ==
    \/ More /\ HelmInstall
    \/ More /\ HelmUpgrade
    \/ More /\ DeployComposer(FALSE)
    \/ More /\ DeployComposer(TRUE)

\* The release installer and the deployment orchestrator, called in any
\* order on any of the clusters.
Spec == Init /\ [][Next]_vars

InitRepeat ==
    /\ tiller = TillerRunning
    /\ proc = Idle
    /\ secrets = NoSecrets
    /\ cm \in {Fresh.cm, Deployed("key1").cm}
    /\ release = {}
    /\ cards = {}
    /\ cardFiles = {}
    /\ archive = NetworkArchive
    /\ hist = <<>>

Again == Len(hist) < MaxRepeats

NextRepeat ==
    \/ Again /\ DeployComposer(FALSE)
    \/ Again /\ ComposerConnection

\* The operations meant to be idempotent, called again and again on a
\* cluster that holds no release yet.
SpecRepeat == InitRepeat /\ [][NextRepeat]_vars

\* ---------------------------------------------- the bootstrap procedures

\* The cards a caller sets up: the PeerAdmin card of setup_admin (network
\* left to None) and a user's card for the network.
CardInputs ==
    {[msp_path |-> "/hl_config/admin", user_name |-> "PeerAdmin",
      roles |-> <<<<"PeerAdmin">>, <<"ChannelAdmin">>>>, network |-> None],
     [msp_path |-> "/hl_config/admin", user_name |-> OrgAdmin,
      roles |-> <<>>, network |-> Some(<<"mynet">>)]}

SetupCard ==
    \E env \in PodEnvs, a \in CardInputs :
        \E r \in {setup_card(Cluster, env, a.msp_path, a.user_name, a.roles,
                             a.network)} :
            /\ hist' = Append(hist, CallW("setup_card", a, r, Cluster))
            /\ Leaves(r)

InstallNetwork ==
    \E env \in PodEnvs :
        \E r \in {install_network(Cluster, env)} :
            /\ hist' = Append(hist, CallW("install_network", [archive |-> archive],
                                          r, Cluster))
            /\ Leaves(r)

\* The archives found in the pod: two well-formed names, and names without
\* an underscore, with two underscores, without the suffix, and with text
\* after the suffix.
Archives ==
    {NetworkArchive,
     <<"trade-net", "_", "0.0.1", ".bna">>,
     <<"bad-format", ".bna">>,
     <<"my", "_", "net", "_", "1.2.3", ".bna">>,
     <<"mynet", "_", "1.2.3">>,
     <<"mynet", "_", "1.2.3", ".bna", ".bak">>}

InitSession ==
    /\ tiller = TillerRunning
    /\ proc = Idle
    /\ secrets = Deployed("key1").secrets
    /\ cm = Deployed("key1").cm
    /\ release = {ComposerName}
    /\ cards = {}
    /\ cardFiles = {}
    /\ archive \in Archives
    /\ hist = <<>>

NextSession ==
    \/ Again /\ SetupCard
    \/ Again /\ InstallNetwork

\* The bootstrap procedures run in the composer CLI pod of a deployed
\* release, again and again.
SpecSession == InitSession /\ [][NextSession]_vars

\* ------------------------------------ helm.py: helm_init, step by step

\* The failed checks of the polling loop so far.
FailedPolls(trace) ==
    Cardinality({n \in 2..Len(trace) :
                    trace[n].arg = <<HelmList>> /\ ~ trace[n].ok})
\* The record of a helm_init call that returned.
Returned(trace) == [op |-> "helm_init", err |-> "none", trace |-> trace]
\* One statement that executes cmd, discards the result and goes to next.
Statement(cmd, next) ==
    /\ \E fails \in BOOLEAN :
          \E run \in {InitExec(tiller, release, cmd, fails)} :
              /\ tiller' = run.t
              /\ proc' = [proc EXCEPT !.pc = next,
                                      !.trace = Append(@, Executed(<<cmd>>, run))]
    /\ UNCHANGED <<secrets, cm, release, cards, cardFiles, archive, hist>>

\* res, _ = execute("helm list"); if res is not None: already installed
Probe ==
    /\ proc.pc = "idle"
    /\ Len(hist) < MaxCalls
    /\ \E fails \in BOOLEAN :
          \E run \in {InitExec(tiller, release, HelmList, fails)} :
              /\ tiller' = run.t
              /\ IF AlreadyInstalled(run.out)
                 THEN /\ proc' = Idle
                      /\ hist' = Append(hist,
                                    Returned(<<Executed(<<HelmList>>, run)>>))
                 ELSE /\ proc' = [pc |-> "rbac", res |-> run.out,
                                  trace |-> <<Executed(<<HelmList>>, run)>>]
                      /\ UNCHANGED hist
    /\ UNCHANGED <<secrets, cm, release, cards, cardFiles, archive>>

\* execute("kubectl create -f .../extras/helm-rbac.yaml")
CreateRbac ==
    /\ proc.pc = "rbac"
    /\ Statement(RbacCreate, "init")

\* execute("helm init --service-account tiller")
InitTiller ==
    /\ proc.pc = "init"
    /\ Statement(HelmInitCommand, "query")

\* res, _ = execute("kubectl ... get deployment tiller-deploy ...")
QueryAutomount ==
    /\ proc.pc = "query"
    /\ \E fails \in BOOLEAN :
          \E run \in {InitExec(tiller, release, AutomountQuery, fails)} :
              /\ tiller' = run.t
              /\ proc' = [pc |-> IF NeedsPatch(run.out) THEN "patch" ELSE "poll",
                          res |-> run.out,
                          trace |-> Append(proc.trace,
                                           Executed(<<AutomountQuery>>, run))]
    /\ UNCHANGED <<secrets, cm, release, cards, cardFiles, archive, hist>>

\* execute("kubectl ... patch deployment tiller-deploy ...")
PatchAutomount ==
    /\ proc.pc = "patch"
    /\ Statement(AutomountPatch, "poll")

\* while not running: res, _ = execute("helm list"); running = True when
\* res is not None, else sleep(15) and check again.  A check fails at most
\* MaxPolls times.
Poll ==
    /\ proc.pc = "poll"
    /\ \E fails \in BOOLEAN :
          \E run \in {InitExec(tiller, release, HelmList, fails)} :
              /\ run.out.some \/ FailedPolls(proc.trace) < MaxPolls
              /\ tiller' = run.t
              /\ IF Running(run.out)
                 THEN /\ proc' = Idle
                      /\ hist' = Append(hist,
                                    Returned(Append(proc.trace,
                                                    Executed(<<HelmList>>, run))))
                 ELSE /\ proc' = [proc EXCEPT
                                    !.res = run.out,
                                    !.trace = Append(@, Executed(<<HelmList>>, run))]
                      /\ UNCHANGED hist
    /\ UNCHANGED <<secrets, cm, release, cards, cardFiles, archive>>

\* The cluster starts the Tiller pod of an existing deployment.
TillerStarts ==
    /\ tiller.installed /\ ~ tiller.ready
    /\ tiller' = [tiller EXCEPT !.ready = TRUE]
    /\ UNCHANGED <<secrets, cm, release, cards, cardFiles, archive, hist, proc>>

\* The clusters helm_init may find: Helm running, with or without a
\* release; Tiller deployed and not answering; no Tiller, the RBAC objects
\* present or not.
Tillers ==
    {TillerRunning, Tiller(TRUE, TRUE, FALSE, <<"true">>)}
    \cup {Tiller(rbac, FALSE, FALSE, a) : rbac \in BOOLEAN, a \in Automounts}

InitHelm ==
    /\ tiller \in Tillers
    /\ release \in {{}, {ComposerName}}
    /\ release # {} => tiller.installed
    /\ proc = Idle
    /\ hist = <<>>
    /\ secrets = NoSecrets
    /\ cm = <<>>
    /\ cards = {}
    /\ cardFiles = {}
    /\ archive = NetworkArchive

\* One statement of helm_init.
HelmInitStep ==
    \/ Probe
    \/ CreateRbac
    \/ InitTiller
    \/ QueryAutomount
    \/ PatchAutomount
    \/ Poll

NextHelm == HelmInitStep \/ TillerStarts

\* helm_init called again and again, the cluster starting Tiller when it
\* likes.
SpecHelm == InitHelm /\ [][NextHelm]_vars

\* The same, the program never stopping between two statements.
SpecHelmLive == SpecHelm /\ WF_vars(HelmInitStep)

\* ------------------------------------------------------------ the claims

\* The last call made, when there is one.
Called(op) == hist # <<>> /\ hist[Len(hist)].op = op
Last == hist[Len(hist)]

\* What the specification says a set-variable renders as.
WantFlag(f) == Len(f) = 3 /\ f[3]
WantFragment(k, v, string) ==
    IF string THEN <<" --set", "-string", " ", k, "=", v>>
    ELSE <<" --set", " ", k, "=", v>>

\* The places of a rendered string where a fragment starts.
Starts(str) == {i \in 1..Len(str) : str[i] = " --set"}
\* The n-th fragment of str (n-th start up to the next start or the end).
NthStart(str, n) ==
    CHOOSE i \in Starts(str) : Cardinality({j \in Starts(str) : j < i}) = n - 1
NthFragment(str, n) ==
    LET from == NthStart(str, n)
        to == IF n = Cardinality(Starts(str)) THEN Len(str)
              ELSE NthStart(str, n + 1) - 1
    IN  SubSeq(str, from, to)

AllSetTuples(env_vars) ==
    \A i \in 1..Len(env_vars) :
        env_vars[i].type = "tuple" /\ Len(env_vars[i].f) \in {2, 3}

\* C10: for every sequence of set-variables helm_env_vars returns a string
\* that is exactly one fragment per variable, the n-th fragment rendering
\* the n-th variable (so in input order, duplicates kept), as
\* " --set-string key=value" when the variable's string-literal flag is set
\* and as " --set key=value" otherwise (a 2-tuple has no flag).
C10_EnvVarsOrderPreserving ==
    (Called("helm_env_vars") /\ AllSetTuples(Last.args.env_vars)) =>
        LET in == Last.args.env_vars
            out == Last.val
        IN  /\ Last.err = "none"
            /\ Cardinality(Starts(out)) = Len(in)
            /\ in # <<>> => 1 \in Starts(out)
            /\ \A n \in 1..Len(in) :
                  NthFragment(out, n) =
                      WantFragment(in[n].f[1], in[n].f[2], WantFlag(in[n].f))

\* C10's case: two variables with the same key, the first a 2-tuple and the
\* second flagged as a string literal, were rendered.
C10_Witness ==
    /\ Called("helm_env_vars")
    /\ Last.args.env_vars =
           <<[type |-> "tuple", f |-> <<"k1", "v1">>],
             [type |-> "tuple", f |-> <<"k1", "v2", TRUE>>]>>
    /\ Last.val = <<" --set", " ", "k1", "=", "v1",
                    " --set", "-string", " ", "k1", "=", "v2">>

\* What the specification says each part of the extra variables is.
RECURSIVE WantFiles(_)
WantFiles(files) ==
    IF files = <<>> THEN <<>>
    ELSE <<" -f ">> \o Head(files) \o WantFiles(Tail(files))
RECURSIVE WantSets(_)
WantSets(items) ==
    IF items = <<>> THEN <<>>
    ELSE WantFragment(Head(items).f[1], Head(items).f[2], WantFlag(Head(items).f))
            \o WantSets(Tail(items))
RECURSIVE WantPreserved(_, _)
WantPreserved(store, refs) ==
    IF refs = <<>> THEN <<>>
    ELSE WantFragment(Head(refs).f[4],
                      store[<<Head(refs).f[1], Head(refs).f[2]>>][Head(refs).f[3]],
                      FALSE)
            \o WantPreserved(store, Tail(refs))
WantVersion(version) ==
    IF version.some /\ version.val # <<>> THEN <<" --version ">> \o version.val
    ELSE <<>>
WantConfig(config_yaml) ==
    IF config_yaml.type = "str" /\ config_yaml.str # <<>>
    THEN <<" -f ">> \o config_yaml.str
    ELSE IF config_yaml.type = "tuple" THEN WantFiles(config_yaml.files)
    ELSE <<>>
OrEmpty(opt) == IF opt.some THEN opt.val ELSE <<>>

\* The inputs helm_extra_vars accepts: typed as documented, and every
\* secret and data item a reference names exists.
Resolvable(store, refs) ==
    \A i \in 1..Len(refs) :
        /\ <<refs[i].f[1], refs[i].f[2]>> \in DOMAIN store
        /\ refs[i].f[3] \in DOMAIN store[<<refs[i].f[1], refs[i].f[2]>>]

\* C9: helm_extra_vars returns the version flag, then the values-file flags
\* in input order, then the inline set-variables in input order, then the
\* set-variables of the preserved secrets in input order; an absent or
\* empty input contributes nothing, and the string is a function of the
\* inputs and of the secret values read.
C9_ExtraVarsFixedOrder ==
    Called("helm_extra_vars") =>
        LET a == Last.args
        IN  /\ Last.err = "none" =>
                  Last.val = WantVersion(a.version) \o WantConfig(a.config_yaml)
                                \o WantSets(OrEmpty(a.env_vars))
                                \o WantPreserved(secrets, OrEmpty(a.preserve))
            /\ (/\ a.config_yaml.type # "other"
                /\ AllSetTuples(OrEmpty(a.env_vars))
                /\ Resolvable(secrets, OrEmpty(a.preserve))) => Last.err = "none"
            /\ (/\ ~ Truthy(a.version)
                /\ WantConfig(a.config_yaml) = <<>> /\ a.config_yaml.type # "other"
                /\ OrEmpty(a.env_vars) = <<>>
                /\ OrEmpty(a.preserve) = <<>>)
                  => Last.err = "none" /\ Last.val = <<>>

\* C9's case: a call with all four parts, two of each sequence, returned
\* them in the fixed order.
C9_Witness ==
    /\ Called("helm_extra_vars")
    /\ Last.err = "none"
    /\ Truthy(Last.args.version)
    /\ Last.args.config_yaml = ConfigTuple(<<<<"a.yaml">>,
            <<DirValues, "/hl-composer/", ComposerName, ".yaml">>>>)
    /\ Last.args.env_vars = Some(<<[type |-> "tuple", f |-> <<"k2", "v2", TRUE>>],
                                   [type |-> "tuple", f |-> <<"k1", "v1">>]>>)
    /\ Last.args.preserve = Some(<<DbRef, ApiKeyRef>>)
    /\ Last.val = <<" --version ", ChartVersion, " -f ", "a.yaml", " -f ",
                    DirValues, "/hl-composer/", ComposerName, ".yaml",
                    " --set", "-string", " ", "k2", "=", "v2",
                    " --set", " ", "k1", "=", "v1",
                    " --set", " ", "db.password", "=", "pw",
                    " --set", " ", "rest.config.apiKey", "=", "key1">>

\* One record of the calls made so far.
Calls(op) == {i \in 1..Len(hist) : hist[i].op = op}
\* The external calls of one kind in a trace.
Events(trace, api) == {n \in 1..Len(trace) : trace[n].api = api}
\* The executor commands of a trace that start with a given word.
Commands(trace, word) ==
    {n \in 1..Len(trace) : trace[n].api = "execute" /\ trace[n].arg[1] = word}
IsProbe(ev) == ev.api = "execute" /\ ev.arg = <<"helm status ", ComposerName>>
ApiKeyOf(w) ==
    IF /\ <<PeerNamespace, RestSecretName>> \in DOMAIN w.secrets
       /\ "COMPOSER_APIKEY" \in DOMAIN w.secrets[<<PeerNamespace, RestSecretName>>]
    THEN Some(<<w.secrets[<<PeerNamespace, RestSecretName>>]["COMPOSER_APIKEY"]>>)
    ELSE None

\* C1: a helm_install whose status probe returned non-empty output made no
\* executor call but that probe (so no 'helm install' command), returned
\* without error and left the cluster as it was.
C1_InstallExistingIsNoOp ==
    \A i \in Calls("helm_install") :
        LET c == hist[i]
        IN  /\ Len(c.trace) >= 1 /\ IsProbe(c.trace[1])
            /\ (c.trace[1].ok /\ c.trace[1].out # <<>>) =>
                  /\ Len(c.trace) = 1
                  /\ c.err = "none"
                  /\ c.post = c.pre

\* C1's case: helm_install was called for a release that exists.
C1_Witness ==
    \E i \in Calls("helm_install") :
        /\ ComposerName \in hist[i].pre.release
        /\ hist[i].trace[1].ok
        /\ hist[i].err = "none"

\* C2: a helm_upgrade whose status probe returned no output raised the
\* fatal error ("Cannot update a Helm release that is not running"), made
\* no executor call but that probe (so no 'helm upgrade' command) and left
\* the cluster as it was.
C2_UpgradeMissingRaises ==
    \A i \in Calls("helm_upgrade") :
        LET c == hist[i]
        IN  /\ Len(c.trace) >= 1 /\ IsProbe(c.trace[1])
            /\ ~ (c.trace[1].ok /\ c.trace[1].out # <<>>) =>
                  /\ c.err = "Exception"
                  /\ Len(c.trace) = 1
                  /\ Commands(c.trace, "helm upgrade ") = {}
                  /\ c.post = c.pre

\* C2's case: helm_upgrade was called for a release that does not exist.
C2_Witness ==
    \E i \in Calls("helm_upgrade") :
        /\ ComposerName \notin hist[i].pre.release
        /\ ~ hist[i].trace[1].ok
        /\ hist[i].err = "Exception"

\* The install command of a call succeeded.
Installed(c) ==
    \E n \in Commands(c.trace, "helm install ") : c.trace[n].ok

C5_ConnectionCreatesOnce ==
    /\ \A i \in Calls("composer_connection") :
          LET c == hist[i]
              key == <<PeerNamespace, SecretConnection>>
          IN  /\ (key \notin DOMAIN c.pre.cm /\ c.err = "none") =>
                    /\ Cardinality(Events(c.trace, "cm_create")) = 1
                    /\ key \in DOMAIN c.post.cm
                    /\ c.post.cm[key] =
                          <<"connection.json", ": ", "{", PeerCa, "ca.example.org",
                            "AidTech", PeerMsp, ChannelName, "}">>
              /\ key \in DOMAIN c.pre.cm => Events(c.trace, "cm_create") = {}
    /\ Cardinality({i \in 1..Len(hist) :
            \E n \in Events(hist[i].trace, "cm_create") : hist[i].trace[n].ok}) <= 1

\* C6, as claimed: the config-map is created only after a read that failed
\* with 'not found' (status 404); when the read fails with another error no
\* cm_create call is made and the caller sees that error.
C6_OnlyNotFoundCreates ==
    \A i \in 1..Len(hist) :
        LET t == hist[i].trace
        IN  \A n \in Events(t, "cm_read") :
                (~ t[n].ok /\ t[n].out # <<"ApiException(404)">>) =>
                    /\ Events(t, "cm_create") = {}
                    /\ hist[i].err = t[n].out[1]

\* C8: when deploy_composer(upgrade=True) sends an upgrade command for an
\* existing release, the command passes rest.config.apiKey with the value
\* COMPOSER_APIKEY has in the live '<name>-hl-composer-rest' secret, and the
\* secret holds the same API key after the call as before it.
C8_UpgradeKeepsApiKey ==
    \A i \in Calls("deploy_composer") :
        LET c == hist[i]
        IN  (c.args.upgrade /\ ComposerName \in c.pre.release) =>
                /\ \A n \in Commands(c.trace, "helm upgrade ") :
                      /\ ApiKeyOf(c.pre).some
                      /\ PassedValue(c.trace[n].arg, "rest.config.apiKey")
                            = ApiKeyOf(c.pre)
                /\ ApiKeyOf(c.post) = ApiKeyOf(c.pre)

\* C8's case: the release was installed with a generated key, and a
\* deploy_composer(upgrade=True) then upgraded it.
C8_Witness ==
    /\ Len(hist) = 2
    /\ hist[1].op = "deploy_composer" /\ ~ hist[1].args.upgrade
    /\ Installed(hist[1])
    /\ ApiKeyOf(hist[1].post) = Some(<<"key2">>)
    /\ hist[2].op = "deploy_composer" /\ hist[2].args.upgrade
    /\ \E n \in Commands(hist[2].trace, "helm upgrade ") : hist[2].trace[n].ok
    /\ ApiKeyOf(hist[2].post) = Some(<<"key2">>)

\* The pod commands of a trace, by their leading words, in order.
RECURSIVE PodCommandsOf(_)
PodCommandsOf(trace) ==
    IF trace = <<>> THEN <<>>
    ELSE (IF Head(trace).api = "pod_execute" THEN <<Head(trace).arg[1]>> ELSE <<>>)
            \o PodCommandsOf(Tail(trace))
PodRuns(trace, word) ==
    {n \in 1..Len(trace) : trace[n].api = "pod_execute" /\ trace[n].arg[1] = word}
AllOk(trace, word) == \A n \in PodRuns(trace, word) : trace[n].ok
CardName(a) == <<a.user_name, "@">> \o (IF a.network.some THEN a.network.val
                                        ELSE <<"None">>)
\* Two setup_card calls in sequence for the same user and network, starting
\* with no such card.
SetupTwice(i) ==
    /\ i + 1 <= Len(hist)
    /\ hist[i].op = "setup_card" /\ hist[i + 1].op = "setup_card"
    /\ hist[i].args = hist[i + 1].args
    /\ CardName(hist[i].args) \notin hist[i].pre.cards

C7_PingIsLast ==
    \A i \in Calls("install_network") :
        LET t == hist[i].trace
            listed == PodRuns(t, CardList)
        IN  listed # {} =>
              /\ t[Len(t)].api = "pod_execute" /\ t[Len(t)].arg[1] = NetworkPing
              /\ \A n \in listed :
                    IF t[n].ok /\ t[n].out # <<>>
                    THEN PodCommandsOf(t) = <<ListArchive, CardList, NetworkPing>>
                    ELSE PodCommandsOf(t) =
                            <<ListArchive, CardList, NetworkInstall, NetworkStart,
                              CardImport, NetworkPing>>

\* C7's case: install_network ran twice; the first call bootstrapped the
\* network and pinged it, the second found the admin card and only pinged.
C7_Witness ==
    /\ Len(hist) >= 2
    /\ hist[1].op = "install_network" /\ hist[2].op = "install_network"
    /\ Len(PodCommandsOf(hist[1].trace)) = 6
    /\ PodCommandsOf(hist[2].trace) = <<ListArchive, CardList, NetworkPing>>
    /\ hist[2].trace[Len(hist[2].trace)].ok

\* C11: for every sequence of references whose secrets and data items all
\* exist, helm_preserve reads each named secret, once and in input order,
\* and returns exactly one fragment per reference, the n-th one being
\* " --set values_path=value" (never "-string") with the value the n-th
\* reference's data item has in its secret; the string is a function of the
\* references and of the secrets' contents.
C11_PreserveResolvesEach ==
    (Called("helm_preserve") /\ Resolvable(secrets, Last.args.preserve)) =>
        LET in == Last.args.preserve
            out == Last.val
        IN  /\ Last.err = "none"
            /\ out = WantPreserved(secrets, in)
            /\ Cardinality(Starts(out)) = Len(in)
            /\ \A n \in 1..Len(in) :
                  NthFragment(out, n) =
                      <<" --set", " ", in[n].f[4], "=",
                        secrets[<<in[n].f[1], in[n].f[2]>>][in[n].f[3]]>>
            /\ Len(Last.trace) = Len(in)
            /\ \A n \in 1..Len(in) :
                  /\ Last.trace[n].api = "secret_read"
                  /\ Last.trace[n].arg = <<in[n].f[1], "/">> \o in[n].f[2]
                  /\ Last.trace[n].ok

\* C11's case: two references to two different secrets were resolved, the
\* API key being the second key the chart may generate.
C11_Witness ==
    /\ Called("helm_preserve")
    /\ Last.args.preserve = <<DbRef, ApiKeyRef>>
    /\ Last.err = "none"
    /\ Last.val = <<" --set", " ", "db.password", "=", "pw",
                    " --set", " ", "rest.config.apiKey", "=", "key2">>

\* The error of a cluster lookup that found nothing: the one the
\* idempotency branches catch.
ResourceNotFoundError == "ApiException(404)"

\* C12, as claimed: when deploy_composer(upgrade=True) resolves the
\* preserved API key and the secret is absent, or present without the
\* COMPOSER_APIKEY item, the call fails with the not-found error of a
\* cluster lookup, and no 'helm upgrade' command is issued.
C12_UnresolvedIsNotFound ==
    \A i \in Calls("deploy_composer") :
        LET c == hist[i]
        IN  (/\ c.args.upgrade
             /\ Events(c.trace, "secret_read") # {}
             /\ ~ ApiKeyOf(c.pre).some) =>
                /\ c.err = ResourceNotFoundError
                /\ Commands(c.trace, "helm upgrade ") = {}

\* An archive file name of the form <name>_<version>.bna.
WellFormed(a) ==
    /\ Len(a) = 4
    /\ a[2] = "_" /\ a[4] = ".bna"
    /\ a[1] \notin {"_", ".bna"} /\ a[3] \notin {"_", ".bna"}
\* The pod listed the archive for this call.
Listed(c) ==
    \E n \in PodRuns(c.trace, ListArchive) : c.trace[n].ok

\* C13: when install_network finds an archive named <name>_<version>.bna,
\* it does not fail, and its card-list and ping commands name the card
\* <admin>@<name> and its network-start command passes <name> as the
\* network name and <version> as the network version, <name> being the text
\* before the underscore and <version> the text between the underscore and
\* '.bna'.
C13_ArchiveNameParsed ==
    \A i \in Calls("install_network") :
        LET c == hist[i]
            a == c.args.archive
            t == c.trace
        IN  (WellFormed(a) /\ Listed(c)) =>
                /\ c.err = "none"
                /\ PodRuns(t, CardList) # {} /\ PodRuns(t, NetworkPing) # {}
                /\ \A n \in PodRuns(t, CardList) :
                      t[n].arg = <<CardList, OrgAdmin, "@", a[1]>>
                /\ \A n \in PodRuns(t, NetworkPing) :
                      t[n].arg = <<NetworkPing, OrgAdmin, "@", a[1]>>
                /\ \A n \in PodRuns(t, NetworkStart) :
                      t[n].arg = <<NetworkStart, "--card PeerAdmin@hlfv1 ",
                                   "--networkName ", a[1], " --networkVersion ",
                                   a[3], " ", "--networkAdmin ", OrgAdmin,
                                   " --networkAdminEnrollSecret ", OrgAdminPw>>

\* C13's case: the archive trade-net_0.0.1.bna was found, and the network
\* was started and pinged under the parsed name and version.
C13_Witness ==
    \E i \in Calls("install_network") :
        LET t == hist[i].trace
        IN  /\ hist[i].args.archive = <<"trade-net", "_", "0.0.1", ".bna">>
            /\ \E n \in PodRuns(t, NetworkStart) :
                  /\ t[n].ok
                  /\ Between(t[n].arg, "--networkName ", " --networkVersion ")
                        = <<"trade-net">>
                  /\ t[n].arg[6] = "0.0.1"
            /\ \E n \in PodRuns(t, NetworkPing) :
                  t[n].ok /\ t[n].arg = <<NetworkPing, OrgAdmin, "@", "trade-net">>

\* C14, as claimed: when install_network finds an archive whose name is not
\* of the form <name>_<version>.bna, it raises the parsing error and issues
\* no command after the listing: no card-list, network-install,
\* network-start, card-import or ping.
C14_MalformedNameRaises ==
    \A i \in Calls("install_network") :
        LET c == hist[i]
        IN  (~ WellFormed(c.args.archive) /\ Listed(c)) =>
                /\ c.err = "ValueError"
                /\ PodCommandsOf(c.trace) = <<ListArchive>>

\* The step of deploy_composer an external call belongs to: 1 the artifact
\* secret, 2 the connection config-map, 3 the installer (the extra variables
\* it is given and its commands), 4 the readiness check.
StepOf(ev) ==
    IF ev.api = "secret_from_file" THEN 1
    ELSE IF ev.api \in {"ingress_read", "cm_read", "cm_create"} THEN 2
    ELSE IF ev.api \in {"secret_read", "execute"} THEN 3
    ELSE 4
\* The external calls of a trace, by name, in order.
ApisOf(trace) == [n \in 1..Len(trace) |-> trace[n].api]

\* C15: in every deploy_composer call the external calls come in the order
\* artifact secret, connection config-map, installer, readiness check; the
\* installer sends install commands only when upgrade is false and upgrade
\* commands only when it is true; the readiness check, when made, is the
\* last call, is made once, after the installer's status probe, with the
\* selector 'app=hl-composer,release=<release-name>', and a call that
\* returns has made all four steps.
C15_DeployStepsInOrder ==
    \A i \in Calls("deploy_composer") :
        LET c == hist[i]
            t == c.trace
            checks == Events(t, "pod_check")
        IN  /\ t # <<>> /\ t[1].api = "secret_from_file"
            /\ Cardinality(Events(t, "secret_from_file")) = 1
            /\ \A m, n \in 1..Len(t) : m < n => StepOf(t[m]) <= StepOf(t[n])
            /\ c.args.upgrade => Commands(t, "helm install ") = {}
            /\ ~ c.args.upgrade => Commands(t, "helm upgrade ") = {}
            /\ Cardinality(Commands(t, "helm install ")
                              \cup Commands(t, "helm upgrade ")) <= 1
            /\ \A n \in checks :
                  /\ n = Len(t)
                  /\ \E m \in 1..(n - 1) : IsProbe(t[m])
                  /\ t[n].arg = <<PeerNamespace, " ", "-l \"app=", "hl-composer",
                                  ",release=", ComposerName, "\"">>
            /\ c.err = "none" <=> checks # {}
            /\ c.err = "none" =>
                  /\ Events(t, "cm_read") # {}
                  /\ \E m \in 1..Len(t) : IsProbe(t[m])

\* C15's case: an install on a cluster that holds nothing, then an upgrade,
\* each going through its four steps.
C15_Witness ==
    /\ Len(hist) = 2
    /\ hist[1].op = "deploy_composer" /\ ~ hist[1].args.upgrade
    /\ ApisOf(hist[1].trace) =
           <<"secret_from_file", "ingress_read", "cm_read", "cm_create",
             "execute", "execute", "pod_check">>
    /\ hist[2].op = "deploy_composer" /\ hist[2].args.upgrade
    /\ ApisOf(hist[2].trace) =
           <<"secret_from_file", "ingress_read", "cm_read", "secret_read",
             "execute", "execute", "pod_check">>
    /\ hist[2].trace[6].arg[1] = "helm upgrade " /\ hist[2].trace[6].ok

\* C16: a deploy_composer(upgrade=True) call made while the release does not
\* exist ends with an error, sends no upgrade and no install command, never
\* starts the readiness check and leaves the release absent; when it gets
\* as far as the status probe, the error is helm_upgrade's ("Cannot update
\* a Helm release that is not running").
C16_UpgradeMissingHalts ==
    \A i \in Calls("deploy_composer") :
        LET c == hist[i]
            t == c.trace
        IN  (c.args.upgrade /\ ComposerName \notin c.pre.release) =>
                /\ c.err # "none"
                /\ Commands(t, "helm upgrade ") = {}
                /\ Commands(t, "helm install ") = {}
                /\ Events(t, "pod_check") = {}
                /\ c.post.release = c.pre.release
                /\ (\E n \in 1..Len(t) : IsProbe(t[n])) =>
                      /\ c.err = "Exception"
                      /\ IsProbe(t[Len(t)])

\* C16's case: deploy_composer(upgrade=True) resolved the API key of a
\* release that no longer exists, probed it and was stopped by helm_upgrade.
C16_Witness ==
    \E i \in Calls("deploy_composer") :
        LET t == hist[i].trace
        IN  /\ hist[i].args.upgrade
            /\ ComposerName \notin hist[i].pre.release
            /\ Events(t, "secret_read") # {}
            /\ IsProbe(t[Len(t)]) /\ ~ t[Len(t)].ok
            /\ hist[i].err = "Exception"

\* The commands of install_network's provisioning sequence.
Provisioning == {NetworkInstall, NetworkStart, CardImport}

\* C17, as claimed: when a command of install_network's provisioning
\* sequence fails, the call issues no command after it (no undo command and
\* no later step: start-network, import-card, ping), and what the earlier
\* steps wrote in the pod remains.
C17_FailureStopsSequence ==
    \A i \in Calls("install_network") :
        LET c == hist[i]
            t == c.trace
        IN  \A n \in 1..Len(t) :
                (/\ t[n].api = "pod_execute"
                 /\ t[n].arg[1] \in Provisioning
                 /\ ~ t[n].ok) =>
                    /\ \A m \in (n + 1)..Len(t) : t[m].api # "pod_execute"
                    /\ c.pre.cardFiles \subseteq c.post.cardFiles
                    /\ c.pre.cards \subseteq c.post.cards

\* The external calls of a trace made for the installer step.
InstallerCalls(t) == {n \in 1..Len(t) : StepOf(t[n]) = 3}

\* C19: in deploy_composer(upgrade=True) every read of the preserved secret
\* comes before the status probe; when the call reaches the installer step
\* while the release and its API-key secret are both absent, the secret
\* read is the only call of that step, no status probe is issued and the
\* caller sees the secret lookup's error, not helm_upgrade's.
C19_SecretReadBeforeProbe ==
    \A i \in Calls("deploy_composer") :
        LET c == hist[i]
            t == c.trace
        IN  c.args.upgrade =>
              /\ \A m \in Events(t, "secret_read"), n \in 1..Len(t) :
                    IsProbe(t[n]) => m < n
              /\ (/\ InstallerCalls(t) # {}
                  /\ ComposerName \notin c.pre.release
                  /\ <<PeerNamespace, RestSecretName>> \notin DOMAIN c.pre.secrets) =>
                    /\ \A n \in InstallerCalls(t) :
                          t[n].api = "secret_read" /\ ~ t[n].ok
                    /\ Cardinality(InstallerCalls(t)) = 1
                    /\ c.err = "ApiException(404)"

\* C19's case: deploy_composer(upgrade=True) on a cluster that holds neither
\* the release nor its secret was stopped by the secret lookup.
C19_Witness ==
    \E i \in Calls("deploy_composer") :
        LET t == hist[i].trace
        IN  /\ hist[i].args.upgrade
            /\ hist[i].pre.release = {}
            /\ <<PeerNamespace, RestSecretName>> \notin DOMAIN hist[i].pre.secrets
            /\ t[Len(t)].api = "secret_read" /\ ~ t[Len(t)].ok
            /\ hist[i].err = "ApiException(404)"

\* The traces of the helm_init calls made: those that returned and the one
\* in progress.
InitTraces == {hist[i].trace : i \in 1..Len(hist)} \cup {proc.trace}
\* The checks ('helm list') of a trace.
Checks(t) == {n \in 1..Len(t) : t[n].arg = <<HelmList>>}

\* C18: a helm_init call returns only on a check that returned output, the
\* first one that did, however many checks failed before it; while it
\* polls, no check has returned output; and once Tiller answers, a call in
\* progress eventually returns.
C18_PollsUntilRunning ==
    /\ [](\A i \in 1..Len(hist) :
            LET t == hist[i].trace
            IN  /\ t[Len(t)].arg = <<HelmList>> /\ t[Len(t)].ok
                /\ \A n \in Checks(t) : n < Len(t) => ~ t[n].ok)
    /\ [](proc.pc = "poll" => \A n \in Checks(proc.trace) : ~ proc.trace[n].ok)
    /\ ((proc.pc # "idle" /\ tiller.ready) ~> (proc.pc = "idle"))

\* C18's case: a call polled, its checks failed as often as the bound
\* allows, and it returned on the next one.
C18_Witness ==
    \E i \in 1..Len(hist) :
        LET t == hist[i].trace
        IN  /\ FailedPolls(t) = MaxPolls
            /\ t[Len(t)].arg = <<HelmList>> /\ t[Len(t)].ok
            /\ Len(t) > MaxPolls + 4

\* C20: a helm_init call whose first 'helm list' returned output executes
\* nothing else; one whose first 'helm list' returned nothing executes the
\* RBAC create, then 'helm init', then the automount query, then the patch
\* if and only if the query returned 'false', and after that only checks:
\* so RBAC create and 'helm init' once each, in that order, before polling.
C20_InitOnlyWhenAbsent ==
    \A t \in InitTraces :
        t # <<>> =>
            /\ t[1].arg = <<HelmList>>
            /\ t[1].ok => Len(t) = 1
            /\ ~ t[1].ok =>
                  /\ Len(t) >= 2 => t[2].arg = <<RbacCreate>>
                  /\ Len(t) >= 3 => t[3].arg = <<HelmInitCommand>>
                  /\ Len(t) >= 4 => t[4].arg = <<AutomountQuery>>
                  /\ \A n \in 5..Len(t) :
                        IF n = 5 /\ t[4].ok /\ t[4].out = <<"false">>
                        THEN t[n].arg = <<AutomountPatch>>
                        ELSE t[n].arg = <<HelmList>>
                  /\ (proc.pc = "poll" /\ t = proc.trace) => Len(t) >= 4

\* C20's case: a first call initialised Helm, patching the deployment, and
\* a second call found Helm running and executed the probe only.
C20_Witness ==
    /\ Len(hist) = 2
    /\ ~ hist[1].trace[1].ok
    /\ Len(hist[1].trace) >= 6
    /\ hist[1].trace[5].arg = <<AutomountPatch>>
    /\ Len(hist[2].trace) = 1
    /\ hist[2].trace[1].ok

====
